---- MODULE Spec2Model ----
(***************************************************************************)
(* Model of src/backend/models/lstm.py: the device transfer adapter        *)
(* (use_gpu / move_device / move_back), the trainable model contract       *)
(* (ModelBaseClass: get_indices, step, update, validation, load_model,     *)
(* save_model) and the sequence classifier (LSTM: forward, init_hidden,    *)
(* save, load).                                                            *)
(*                                                                         *)
(* Abstractions.  A tensor is a value [kind, name, dev, rows]: torch's     *)
(* Tensor.cuda() and Tensor.to() return a NEW tensor when the device       *)
(* differs and the tensor itself otherwise, so a tensor never changes      *)
(* place; nn.Module.cuda() and nn.Module.to() move the module's parameters *)
(* in place and return the module, so the module's place is the variable   *)
(* modelLoc.  Real numbers are exact rationals <<num, den>>.  The learned  *)
(* functions (embedding, GRU, linear) are fixed integer functions of the   *)
(* parameter version and the tokens; exp is modelled by 2^x.               *)
(***************************************************************************)
EXTENDS Integers, Sequences, FiniteSets, TLC

VARIABLES
    cudaAvailable,  \* the machine has an accelerator (torch.cuda.is_available())
    device,         \* self.device: the identifier given at construction
    modelLoc,       \* where the module's parameters actually are
    training,       \* self.training
    params,         \* version of the parameter values (one per optimizer step)
    optSteps,       \* state of the Adam optimizer: steps applied
    grad,           \* accumulated gradients: "none", "zero" or "set"
    stack,          \* the adapted calls in progress, outermost first
    pc,             \* position of the single thread of control
    fwdCaller,      \* who called forward: "step", "validation" or "call"
    fwdOut,         \* value returned by the last forward body
    epochs,         \* update's argument epochs
    batch_size,     \* update's / get_indices' argument batch_size
    dataset_size,   \* input_data.shape[0] / get_indices' argument
    batch_indices,  \* the list returned by get_indices
    iteration,      \* update's epoch counter
    bi,             \* update's batch counter i
    total_loss,     \* update's total_loss, a rational
    stepLog,        \* history: <<iteration, i, indices>> of every finished step
    epochLosses,    \* history: <<number, sum>> of the losses of the current epoch
    shuffleCalls,   \* history: calls of get_indices made by the current update
    lastCall,       \* history: the last top-level call and how it ended
    lastReturn,     \* history: the last adapted call that returned normally
    calls,          \* number of top-level calls made so far
    files,          \* the checkpoint files: path -> saved state or NoFile
    dirs            \* the directories that exist

vars == <<cudaAvailable, device, modelLoc, training, params, optSteps, grad,
          stack, pc, fwdCaller, fwdOut, epochs, batch_size, dataset_size,
          batch_indices, iteration, bi, total_loss, stepLog, epochLosses,
          shuffleCalls, lastCall, lastReturn, calls, files, dirs>>

envVars == <<cudaAvailable, device>>
modelVars == <<modelLoc, training, params, optSteps, grad>>
loopVars == <<epochs, batch_size, dataset_size, batch_indices, iteration, bi,
               total_loss, stepLog, epochLosses, shuffleCalls>>
fsVars == <<files, dirs>>

(***************************** bounds **************************************)
MaxN == 4          \* largest dataset size given to get_indices alone
NumDocs == 2       \* documents of the training set
MaxEpochs == 2     \* largest epochs argument
MaxLoss == 1       \* losses are drawn from 0..MaxLoss
MaxCalls == 2      \* top-level calls of one run
MaxParams == 2     \* parameter versions of the checkpoint runs

(************************** small helpers **********************************)
Devices == {"cpu", "cuda"}

Range(s) == {s[k] : k \in DOMAIN s}

RECURSIVE SumSeq(_)
SumSeq(s) == IF s = <<>> THEN 0 ELSE Head(s) + SumSeq(Tail(s))

RECURSIVE Pow2(_)
Pow2(n) == IF n = 0 THEN 1 ELSE 2 * Pow2(n - 1)

RatEq(a, b) == a[1] * b[2] = b[1] * a[2]
RatAdd(a, n) == <<a[1] + n * a[2], a[2]>>     \* total_loss += loss
RatDiv(a, k) == <<a[1], a[2] * k>>            \* total_loss /= len(data)

(************************ batch index generation ***************************)
\* np.random.permutation(n): every ordering of 0..n-1
permutation(n) ==
    {p \in [1..n -> 0..(n - 1)] : \A a, b \in 1..n : a # b => p[a] # p[b]}

\* get_indices without the remainder batch
get_indices_no_rest(perm, n, b) ==
    LET ending_index == n - (n % b)
    IN  [j \in 1..(ending_index \div b) |->
            [k \in 1..b |-> perm[(j - 1) * b + k]]]

get_indices(perm, n, b) ==
    LET ending_index == n - (n % b)
        full == [j \in 1..(ending_index \div b) |->
                    [k \in 1..b |-> perm[(j - 1) * b + k]]]
        rest == [k \in 1..(n - ending_index) |-> perm[ending_index + k]]
    IN  IF ending_index # n THEN Append(full, rest) ELSE full

(************************* values and devices ******************************)
Tensor(name, dev, rows) ==
    [kind |-> "tensor", name |-> name, dev |-> dev, rows |-> rows]
Module == [kind |-> "module", name |-> <<"model">>, dev |-> "attr", rows |-> <<>>]
Plain(name) == [kind |-> "plain", name |-> <<name>>, dev |-> "None", rows |-> <<>>]

\* hasattr(arg, 'cuda'): tensors and modules
HasCuda(x) == x.kind \in {"tensor", "module"}

\* arg.device: a tensor's place; for the model, the attribute self.device
DeviceAttr(x, selfDevice) == IF x.kind = "module" THEN selfDevice ELSE x.dev

\* where the object really is
LocOf(x, mloc) == IF x.kind = "module" THEN mloc ELSE x.dev

\* arg.to(dev) / arg.cuda() as a value: the module itself, the tensor itself
\* when it is already there, a new tensor otherwise
ToDevice(x, dev) ==
    IF x.kind = "tensor" /\ x.dev # dev
    THEN Tensor(Append(x.name, dev), dev, x.rows)
    ELSE x

DataTensor == Tensor(<<"data">>, "cpu", [k \in 1..NumDocs |-> k - 1])
TargetTensor == Tensor(<<"targets">>, "cpu", [k \in 1..NumDocs |-> k - 1])
QueryTensor == Tensor(<<"query">>, "cpu", <<NumDocs>>)

\* indexing that hands back the indexed tensor itself
IndexSameObject(t, indices) == t

\* data[indices]: advanced indexing makes a new tensor on the same device
Index(t, indices) == Tensor(Append(t.name, "batch"), t.dev, indices)

get_batches(data, indices) == [j \in DOMAIN indices |-> Index(data, indices[j])]

(*********************** device transfer adapter ***************************)
Transferable(args, kwargs) ==
    {args[k] : k \in {j \in DOMAIN args : HasCuda(args[j])}}
      \cup {kwargs[key] : key \in {q \in DOMAIN kwargs : HasCuda(kwargs[q])}}

\* lines 115-122: the devices recorded per position and per keyword
ArgDevices(args, selfDevice) ==
    [k \in DOMAIN args |->
        IF HasCuda(args[k]) THEN DeviceAttr(args[k], selfDevice) ELSE "None"]
KwargDevices(kwargs, selfDevice) ==
    [key \in {q \in DOMAIN kwargs : HasCuda(kwargs[q])} |->
        DeviceAttr(kwargs[key], selfDevice)]

\* move_device: the arguments handed to f
MoveDeviceArgs(args, available) ==
    [k \in DOMAIN args |->
        IF HasCuda(args[k]) /\ available THEN ToDevice(args[k], "cuda") ELSE args[k]]
MoveDeviceKwargs(kwargs, available) ==
    [key \in DOMAIN kwargs |->
        IF HasCuda(kwargs[key]) /\ available THEN ToDevice(kwargs[key], "cuda")
        ELSE kwargs[key]]
\* move_device: where the module is afterwards (Module.cuda() is in place)
MoveDeviceLoc(args, kwargs, available, mloc) ==
    IF available /\ Module \in Transferable(args, kwargs) THEN "cuda" ELSE mloc
\* .cuda() raises on a machine without an accelerator
MoveDeviceRaises(args, kwargs, available, hasCuda) ==
    available /\ ~hasCuda /\ Transferable(args, kwargs) # {}

\* move_back(arg_devices, kwarg_devices, *args, **kwargs): where the module is
\* afterwards; positional arguments go .to(arg_devices[i]), the keyword loop
\* runs over kwargs
MoveBackLoc(arg_devices, kwarg_devices, args, kwargs, mloc) ==
    IF \E k \in DOMAIN args : args[k] = Module
    THEN arg_devices[CHOOSE k \in DOMAIN args : args[k] = Module]
    ELSE mloc

\* line 108: value.to[...] subscripts a method, which raises TypeError as soon
\* as move_back's keyword loop meets a transferable value
MoveBackRaises(args, kwargs) == \E key \in DOMAIN kwargs : HasCuda(kwargs[key])

\* line 125: use_gpu calls move_back(arg_devices, kwarg_devices, *args, kwargs):
\* the keyword dictionary travels as one more positional argument, which has
\* no cuda attribute, and move_back's own kwargs are empty
AdapterRestoreLoc(frame, mloc) ==
    MoveBackLoc(frame.arg_devices, frame.kwarg_devices,
                Append(frame.args, Plain("kwargs")), <<>>, mloc)

AdapterRestoreRaises(frame) ==
    MoveBackRaises(Append(frame.args, Plain("kwargs")), <<>>)

Frame(fn, args, kwargs, available, selfDevice, mloc) ==
    [fn |-> fn,
     orig |-> Transferable(args, kwargs),
     args |-> MoveDeviceArgs(args, available),
     kwargs |-> MoveDeviceKwargs(kwargs, available),
     arg_devices |-> ArgDevices(args, selfDevice),
     kwarg_devices |-> KwargDevices(kwargs, selfDevice),
     pre |-> mloc]

\* the objects a call in progress holds as arguments
FrameObjects(frame) == Transferable(frame.args, frame.kwargs)

(*************************** the classifier ********************************)
Classes == 0..1
Pad == 2                                   \* the reserved padding index

\* an encoded document, padded to two time steps
Doc(d) == <<d % 2, (d \div 2) % 3>>

\* embedding lookup: the padding row is the zero vector
Emb(tok) == IF tok = Pad THEN 0 ELSE tok + 1

\* the recurrent encoder: hidden value after t time steps, from a zero state
RECURSIVE Hidden(_, _, _)
Hidden(p, doc, t) ==
    IF t = 0 THEN 0 ELSE (3 * Hidden(p, doc, t - 1) + Emb(doc[t]) + p) % 5

\* the linear projection of one time step's hidden value
Linear(p, h) == [c \in Classes |-> <<(h * (c + 1) + c + p) % 4, 1>>]

\* F.softmax(output, dim=-1) on one vector
Softmax(v) ==
    LET e == [c \in Classes |-> Pow2(v[c][1])]
        total == SumSeq([k \in 1..Cardinality(Classes) |-> e[k - 1]])
    IN  [c \in Classes |-> <<e[c], total>>]

\* output[:, -1, :]: the index of the last time step
LastStep(doc) == Len(doc)

\* forward with the mode test the wrong way round
forward_softmax_when_training(p, isTraining, rows) ==
    [k \in DOMAIN rows |->
        LET doc == Doc(rows[k])
            last == Linear(p, Hidden(p, doc, Len(doc)))
        IN  IF isTraining THEN Softmax(last) ELSE last]

\* LSTM.forward's value for the documents of one batch
forward(p, isTraining, rows) ==
    [k \in DOMAIN rows |->
        LET doc == Doc(rows[k])
            output == [t \in 1..Len(doc) |-> Linear(p, Hidden(p, doc, t))]
            out == IF ~isTraining
                   THEN [t \in DOMAIN output |-> Softmax(output[t])]
                   ELSE output
        IN  out[LastStep(doc)]]

\* init_hidden: torch.zeros(..., device=self.device)
init_hidden(selfDevice) == selfDevice

\* devices agree inside forward: embedding(data) needs data with the weights,
\* gru(embedding, hidden) needs the hidden state with them too
ForwardDevicesAgree(data, mloc, selfDevice) ==
    data.dev = mloc /\ init_hidden(selfDevice) = mloc

(**************************** the state *************************************)
Paths == {"model.pt", "models/model.pt"}
Parent(path) == IF path = "models/model.pt" THEN "models" ELSE "."
NoFile == -1

\* the attributes LSTM.__init__ and ModelBaseClass.__init__ set on the model
ModelAttrs == {"device", "use_tensorboard", "embedding", "hidden_size", "gru",
               "linear", "loss_function", "adam", "weight_shape", "use_avg"}

\* LSTM.loss(self) takes no argument besides self
LossAccepts(nargs) == nargs = 0

ModelState == [params |-> params, optSteps |-> optSteps, training |-> training]

Started(op, path) ==
    [op |-> op, outcome |-> "running", rv |-> <<0, 1>>, path |-> path,
     before |-> ModelState]
Ended(op, outcome, rv, path) ==
    [op |-> op, outcome |-> outcome, rv |-> rv, path |-> path,
     before |-> ModelState]

NoReturn == [fn |-> "none", pre |-> <<>>, post |-> <<>>]
Returned(frame, mlocAfter) ==
    [fn |-> frame.fn,
     pre |-> [o \in frame.orig |-> LocOf(o, frame.pre)],
     post |-> [o \in frame.orig |-> LocOf(o, mlocAfter)]]

InitCommon ==
    /\ modelLoc = "cpu"
    /\ training = TRUE
    /\ optSteps = 0
    /\ grad = "none"
    /\ stack = <<>>
    /\ pc = "idle"
    /\ fwdCaller = "none"
    /\ fwdOut = <<>>
    /\ epochs = 0
    /\ batch_indices = <<>>
    /\ iteration = 0
    /\ bi = 0
    /\ total_loss = <<0, 1>>
    /\ stepLog = <<>>
    /\ epochLosses = <<0, 0>>
    /\ shuffleCalls = 0
    /\ lastCall = [op |-> "none", outcome |-> "ok", rv |-> <<0, 1>>, path |-> "",
                   before |-> [params |-> 0, optSteps |-> 0, training |-> TRUE]]
    /\ lastReturn = NoReturn
    /\ calls = 0

Init ==
    /\ InitCommon
    /\ cudaAvailable \in BOOLEAN
    /\ device \in Devices
    /\ params = 0
    /\ batch_size = 1
    /\ dataset_size = NumDocs
    /\ files = [p \in Paths |-> NoFile]
    /\ dirs = {"."}

(************************ exceptions and the adapter ************************)
\* nothing in the loop catches: an exception leaves every call in progress,
\* and no adapter on the way restores anything
Raise(kind) ==
    /\ pc' = "idle"
    /\ stack' = <<>>
    /\ lastCall' = [lastCall EXCEPT !.outcome = kind]

\* a new top-level call: update's locals are gone, the history starts again
NewCall ==
    /\ calls < MaxCalls
    /\ calls' = calls + 1
    /\ epochs' = 0
    /\ batch_size' = 1
    /\ batch_indices' = <<>>
    /\ iteration' = 0
    /\ bi' = 0
    /\ total_loss' = <<0, 1>>
    /\ stepLog' = <<>>
    /\ epochLosses' = <<0, 0>>
    /\ shuffleCalls' = 0
    /\ lastReturn' = NoReturn
    /\ fwdOut' = <<>>
    /\ UNCHANGED dataset_size

\* use_gpu(available=True) around LSTM.forward, up to the call of f
EnterForward(caller, data, call) ==
    LET args == <<Module, data>> IN
    IF MoveDeviceRaises(args, <<>>, TRUE, cudaAvailable)
    THEN /\ Raise("cuda_error")
         /\ UNCHANGED <<modelLoc, fwdCaller>>
    ELSE /\ stack' = Append(stack, Frame("forward", args, <<>>, TRUE, device, modelLoc))
         /\ modelLoc' = MoveDeviceLoc(args, <<>>, TRUE, modelLoc)
         /\ fwdCaller' = caller
         /\ pc' = "fwd"
         /\ lastCall' = call

\* an epoch that starts from the running value
EpochStartLossKept(prev) == prev

\* line 194: total_loss = 0 at the start of every epoch
EpochStartLoss(prev) == <<0, 1>>

UpdateArgs(kw) ==
    IF kw THEN <<Module>> ELSE <<Module, DataTensor, TargetTensor>>
UpdateKwargs(kw) ==
    IF kw
    THEN [data |-> DataTensor, targets |-> TargetTensor,
          batch_size |-> Plain("batch_size"), epochs |-> Plain("epochs")]
    ELSE [batch_size |-> Plain("batch_size"), epochs |-> Plain("epochs")]

\* the data tensor update's body sees
UpdateData(frame) ==
    IF "data" \in DOMAIN frame.kwargs THEN frame.kwargs.data ELSE frame.args[2]

(***************************** the actions **********************************)
\* model.update(data, targets, batch_size=B, epochs=E): the adapter's entry,
\* self.train(), create_batches and the start of the first epoch
UpdateCall(E, B, kw, perm) ==
    /\ pc = "idle"
    /\ calls < MaxCalls
    /\ calls' = calls + 1
    /\ lastReturn' = NoReturn
    /\ fwdOut' = <<>>
    /\ LET args == UpdateArgs(kw)
           kwargs == UpdateKwargs(kw)
       IN  IF MoveDeviceRaises(args, kwargs, TRUE, cudaAvailable)
           THEN /\ pc' = "idle"
                /\ lastCall' = Ended("update", "cuda_error", <<0, 1>>, "")
                /\ epochs' = 0
                /\ batch_size' = 1
                /\ batch_indices' = <<>>
                /\ iteration' = 0
                /\ bi' = 0
                /\ total_loss' = <<0, 1>>
                /\ stepLog' = <<>>
                /\ epochLosses' = <<0, 0>>
                /\ shuffleCalls' = 0
                /\ UNCHANGED <<stack, modelVars, dataset_size>>
           ELSE /\ stack' = <<Frame("update", args, kwargs, TRUE, device, modelLoc)>>
                /\ modelLoc' = MoveDeviceLoc(args, kwargs, TRUE, modelLoc)
                /\ training' = TRUE
                /\ epochs' = E
                /\ batch_size' = B
                /\ batch_indices' = get_indices(perm, dataset_size, B)
                /\ shuffleCalls' = 1
                /\ iteration' = 0
                /\ bi' = 0
                /\ total_loss' = EpochStartLoss(<<0, 1>>)
                /\ stepLog' = <<>>
                /\ epochLosses' = <<0, 0>>
                /\ lastCall' = Started("update", "")
                /\ pc' = "step"
                /\ UNCHANGED <<params, optSteps, grad, dataset_size>>
    /\ UNCHANGED <<envVars, fwdCaller, fsVars>>

\* step: optimizer.zero_grad(), then the adapted call self.forward(input_data)
StepForward ==
    /\ pc = "step"
    /\ grad' = "zero"
    /\ EnterForward("step", get_batches(UpdateData(stack[1]), batch_indices)[bi + 1],
                    lastCall)
    /\ UNCHANGED <<envVars, training, params, optSteps, fwdOut, loopVars,
                   lastReturn, calls, fsVars>>

\* model(data): __call__ makes the adapted call self.forward(data)
ForwardCall ==
    /\ pc = "idle"
    /\ NewCall
    /\ IF MoveDeviceRaises(<<Module, QueryTensor>>, <<>>, TRUE, cudaAvailable)
       THEN /\ pc' = "idle"
            /\ lastCall' = Ended("forward", "cuda_error", <<0, 1>>, "")
            /\ UNCHANGED <<stack, modelLoc, fwdCaller>>
       ELSE EnterForward("call", QueryTensor, Started("forward", ""))
    /\ UNCHANGED <<envVars, training, params, optSteps, grad, fsVars>>

\* the body of LSTM.forward
ForwardBody ==
    /\ pc = "fwd"
    /\ LET data == stack[Len(stack)].args[2]
       IN  IF ForwardDevicesAgree(data, modelLoc, device)
           THEN /\ fwdOut' = forward(params, training, data.rows)
                /\ pc' = "fwd_ret"
                /\ UNCHANGED <<stack, lastCall>>
           ELSE /\ Raise("device_error")
                /\ UNCHANGED fwdOut
    /\ UNCHANGED <<envVars, modelVars, fwdCaller, loopVars, lastReturn, calls, fsVars>>

\* use_gpu after f returned: move_back, then return rv
ForwardReturn ==
    /\ pc = "fwd_ret"
    /\ LET frame == stack[Len(stack)]
           back == AdapterRestoreLoc(frame, modelLoc)
       IN  IF AdapterRestoreRaises(frame)
           THEN /\ Raise("type_error")
                /\ UNCHANGED <<modelLoc, lastReturn>>
           ELSE /\ modelLoc' = back
                /\ stack' = SubSeq(stack, 1, Len(stack) - 1)
                /\ lastReturn' = Returned(frame, back)
                /\ pc' = CASE fwdCaller = "step" -> "step_loss"
                           [] fwdCaller = "validation" -> "val_loss"
                           [] OTHER -> "idle"
                /\ lastCall' = IF fwdCaller = "call"
                               THEN [lastCall EXCEPT !.outcome = "ok"]
                               ELSE lastCall
    /\ UNCHANGED <<envVars, training, params, optSteps, grad, fwdCaller, fwdOut,
                   loopVars, calls, fsVars>>

\* step after forward: the loss, backward, optimizer.step(); then update's
\* accumulation and the move to the next batch
StepFinish(l) ==
    /\ pc = "step_loss"
    /\ IF LossAccepts(0)
       THEN /\ grad' = "set"
            /\ params' = params + 1
            /\ optSteps' = optSteps + 1
            /\ total_loss' = RatAdd(total_loss, l)
            /\ stepLog' = Append(stepLog, <<iteration, bi, batch_indices[bi + 1]>>)
            /\ epochLosses' = <<epochLosses[1] + 1, epochLosses[2] + l>>
            /\ IF bi + 1 < Len(batch_indices)
               THEN bi' = bi + 1 /\ pc' = "step"
               ELSE bi' = bi /\ pc' = "epoch_end"
            /\ UNCHANGED <<stack, lastCall>>
       ELSE /\ Raise("type_error")
            /\ UNCHANGED <<grad, params, optSteps, total_loss, stepLog,
                           epochLosses, bi>>
    /\ UNCHANGED <<envVars, modelLoc, training, fwdCaller, fwdOut, epochs,
                   batch_size, dataset_size, batch_indices, iteration,
                   shuffleCalls, lastReturn, calls, fsVars>>

\* an epoch end that draws a new partition for the next epoch
EpochEndReshuffle ==
    /\ pc = "epoch_end"
    /\ IF iteration + 1 < epochs
       THEN /\ iteration' = iteration + 1
            /\ bi' = 0
            /\ total_loss' = <<0, 1>>
            /\ epochLosses' = <<0, 0>>
            /\ \E perm \in permutation(dataset_size) :
                  batch_indices' = get_indices(perm, dataset_size, batch_size)
            /\ shuffleCalls' = shuffleCalls + 1
            /\ pc' = "step"
       ELSE /\ total_loss' = RatDiv(total_loss, Len(batch_indices))
            /\ pc' = "update_ret"
            /\ UNCHANGED <<iteration, bi, epochLosses, batch_indices, shuffleCalls>>
    /\ UNCHANGED <<envVars, modelVars, stack, fwdCaller, fwdOut, epochs, batch_size,
                   dataset_size, stepLog, lastCall, lastReturn, calls, fsVars>>

\* the end of one epoch: total_loss /= len(data), then the next epoch over
\* the same data, targets, or the end of the loop
EpochEnd ==
    /\ pc = "epoch_end"
    /\ IF iteration + 1 < epochs
       THEN /\ iteration' = iteration + 1
            /\ bi' = 0
            /\ total_loss' = EpochStartLoss(RatDiv(total_loss, Len(batch_indices)))
            /\ epochLosses' = <<0, 0>>
            /\ pc' = "step"
       ELSE /\ total_loss' = RatDiv(total_loss, Len(batch_indices))
            /\ pc' = "update_ret"
            /\ UNCHANGED <<iteration, bi, epochLosses>>
    /\ UNCHANGED <<envVars, modelVars, stack, fwdCaller, fwdOut, epochs, batch_size,
                   dataset_size, batch_indices, stepLog, shuffleCalls, lastCall,
                   lastReturn, calls, fsVars>>

\* return total_loss, through the adapter around update
UpdateReturn ==
    /\ pc = "update_ret"
    /\ LET frame == stack[1]
           back == AdapterRestoreLoc(frame, modelLoc)
       IN  IF AdapterRestoreRaises(frame)
           THEN /\ Raise("type_error")
                /\ UNCHANGED <<modelLoc, lastReturn>>
           ELSE /\ modelLoc' = back
                /\ stack' = <<>>
                /\ lastReturn' = Returned(frame, back)
                /\ lastCall' = [lastCall EXCEPT !.outcome = "ok", !.rv = total_loss]
                /\ pc' = "idle"
    /\ UNCHANGED <<envVars, training, params, optSteps, grad, fwdCaller, fwdOut,
                   loopVars, calls, fsVars>>

\* model.validation(data, targets), up to the call of forward
ValidationCall ==
    /\ pc = "idle"
    /\ NewCall
    /\ IF MoveDeviceRaises(<<Module, DataTensor>>, <<>>, TRUE, cudaAvailable)
       THEN /\ pc' = "idle"
            /\ lastCall' = Ended("validation", "cuda_error", <<0, 1>>, "")
            /\ UNCHANGED <<stack, modelLoc, fwdCaller>>
       ELSE EnterForward("validation", DataTensor, Started("validation", ""))
    /\ UNCHANGED <<envVars, training, params, optSteps, grad, fsVars>>

\* validation after forward: loss = self.loss(predictions, targets); loss.item()
ValidationLoss(l) ==
    /\ pc = "val_loss"
    /\ IF LossAccepts(2)
       THEN /\ lastCall' = [lastCall EXCEPT !.outcome = "ok", !.rv = <<l, 1>>]
            /\ pc' = "idle"
            /\ UNCHANGED stack
       ELSE Raise("type_error")
    /\ UNCHANGED <<envVars, modelVars, fwdCaller, fwdOut, loopVars, lastReturn,
                   calls, fsVars>>

\* model.eval()
EvalCall ==
    /\ pc = "idle"
    /\ NewCall
    /\ training' = FALSE
    /\ lastCall' = [Ended("eval", "ok", <<0, 1>>, "") EXCEPT !.before.training = FALSE]
    /\ UNCHANGED <<envVars, modelLoc, params, optSteps, grad, stack, pc, fwdCaller,
                   fsVars>>

\* the steps of a call of update that is in progress
UpdateProgress ==
    \/ StepForward
    \/ ForwardBody
    \/ ForwardReturn
    \/ \E l \in 0..MaxLoss : StepFinish(l)
    \/ EpochEnd
    \/ UpdateReturn

Next ==
    \/ \E E \in 1..MaxEpochs, B \in 1..(NumDocs + 1), kw \in BOOLEAN,
          perm \in permutation(NumDocs) : UpdateCall(E, B, kw, perm)
    \/ StepForward
    \/ ForwardCall
    \/ ForwardBody
    \/ ForwardReturn
    \/ \E l \in 0..MaxLoss : StepFinish(l)
    \/ EpochEnd
    \/ UpdateReturn
    \/ ValidationCall
    \/ \E l \in 0..MaxLoss : ValidationLoss(l)
    \/ EvalCall

Spec == Init /\ [][Next]_vars

(***************** batch index generation on its own ***********************)
InitIdx ==
    /\ InitCommon
    /\ cudaAvailable = FALSE
    /\ device = "cpu"
    /\ params = 0
    /\ dataset_size \in 1..MaxN
    /\ batch_size \in 1..MaxN
    /\ files = [p \in Paths |-> NoFile]
    /\ dirs = {"."}

\* model.get_indices(dataset_size, batch_size)
GetIndicesCall(perm) ==
    /\ lastCall.op = "none"
    /\ batch_indices' = get_indices(perm, dataset_size, batch_size)
    /\ lastCall' = Ended("get_indices", "ok", <<0, 1>>, "")
    /\ UNCHANGED <<envVars, modelVars, stack, pc, fwdCaller, fwdOut, epochs,
                   batch_size, dataset_size, iteration, bi, total_loss, stepLog,
                   epochLosses, shuffleCalls, lastReturn, calls, fsVars>>

NextIdx == \E perm \in permutation(dataset_size) : GetIndicesCall(perm)

SpecIdx == InitIdx /\ [][NextIdx]_vars

(**************************** checkpoints ***********************************)
InitCkpt ==
    /\ InitCommon
    /\ cudaAvailable = FALSE
    /\ device = "cpu"
    /\ params \in 0..MaxParams
    /\ batch_size = 1
    /\ dataset_size = NumDocs
    /\ files = [p \in Paths |-> NoFile]
    /\ dirs \in {{"."}, {".", "models"}}

ckptFrame == <<envVars, modelLoc, optSteps, grad, stack, pc, fwdCaller, fwdOut,
               loopVars, lastReturn, calls>>

\* LSTM(...): a freshly constructed model of the same architecture
Construct(v) ==
    /\ params' = v
    /\ training' = TRUE
    /\ lastCall' = Ended("construct", "ok", <<0, 1>>, "")
    /\ UNCHANGED <<ckptFrame, fsVars>>

\* LSTM.save(path): torch.save writes the file; it makes no directory
SaveCall(path) ==
    /\ IF Parent(path) \in dirs
       THEN /\ files' = [files EXCEPT ![path] = params]
            /\ lastCall' = Ended("save", "ok", <<0, 1>>, path)
       ELSE /\ lastCall' = Ended("save", "io_error", <<0, 1>>, path)
            /\ UNCHANGED files
    /\ UNCHANGED <<ckptFrame, params, training, dirs>>

\* ModelBaseClass.save_model(path): reads self._path before it writes
SaveModelCall(path) ==
    /\ IF "_path" \in ModelAttrs
       THEN /\ dirs' = dirs \cup {Parent(path)}
            /\ files' = [files EXCEPT ![path] = params]
            /\ lastCall' = Ended("save_model", "ok", <<0, 1>>, path)
       ELSE /\ lastCall' = Ended("save_model", "attribute_error", <<0, 1>>, path)
            /\ UNCHANGED <<files, dirs>>
    /\ UNCHANGED <<ckptFrame, params, training>>

\* LSTM.load(path): torch.load, load_state_dict, eval()
LoadCall(path) ==
    /\ IF files[path] # NoFile
       THEN /\ params' = files[path]
            /\ training' = FALSE
            /\ lastCall' = Ended("load", "ok", <<0, 1>>, path)
       ELSE /\ lastCall' = Ended("load", "file_not_found", <<0, 1>>, path)
            /\ UNCHANGED <<params, training>>
    /\ UNCHANGED <<ckptFrame, fsVars>>

\* ModelBaseClass.load_model(path): only when path.exists()
LoadModelCall(path) ==
    /\ IF files[path] # NoFile
       THEN params' = files[path]
       ELSE UNCHANGED params
    /\ lastCall' = Ended("load_model", "ok", <<0, 1>>, path)
    /\ UNCHANGED <<ckptFrame, training, fsVars>>

NextCkpt ==
    \/ \E v \in 0..MaxParams : Construct(v)
    \/ \E path \in Paths : SaveCall(path)
    \/ \E path \in Paths : SaveModelCall(path)
    \/ \E path \in Paths : LoadCall(path)
    \/ \E path \in Paths : LoadModelCall(path)

SpecCkpt == InitCkpt /\ [][NextCkpt]_vars

(******************************* claims *************************************)
RECURSIVE Flatten(_)
Flatten(ss) == IF ss = <<>> THEN <<>> ELSE Head(ss) \o Flatten(Tail(ss))

\* C1: for 1 <= B <= N the batches returned by get_indices(N, B) hold every
\* index of 0..N-1 exactly once, every batch but possibly the last has B
\* indices, and the last has N mod B indices when N mod B is not zero.
C1_BatchesPartitionIndices ==
    (lastCall.op = "get_indices" /\ batch_size <= dataset_size) =>
        LET all == Flatten(batch_indices)
            K == Len(batch_indices)
        IN  /\ Len(all) = dataset_size
            /\ Range(all) = 0..(dataset_size - 1)
            /\ \A j \in 1..(K - 1) : Len(batch_indices[j]) = batch_size
            /\ IF dataset_size % batch_size # 0
               THEN Len(batch_indices[K]) = dataset_size % batch_size
               ELSE Len(batch_indices[K]) = batch_size

C1_Witness ==
    /\ lastCall.op = "get_indices"
    /\ dataset_size = 4
    /\ batch_size = 3
    /\ Len(batch_indices) = 2

\* C2: after an adapted call returns normally, every transferable argument is
\* on the device it was on before the call began.
C2_ArgumentsRestored ==
    lastReturn.fn # "none" => lastReturn.post = lastReturn.pre

\* C3 as stated: every epoch of update starts with its own call of batch
\* index generation.
C3_FreshPartitionEveryEpoch ==
    (lastCall.op = "update" /\ lastCall.outcome = "running") =>
        shuffleCalls = iteration + 1

\* C3 as amended: update calls batch index generation once, before the first
\* epoch, and every epoch runs over that same partition: the batch at a given
\* position holds the same indices in every epoch.
C3_OnePartitionPerUpdate ==
    (lastCall.op = "update" /\ lastCall.outcome \in {"running", "ok"}) =>
        /\ shuffleCalls = 1
        /\ \A a, b \in DOMAIN stepLog :
              stepLog[a][2] = stepLog[b][2] => stepLog[a][3] = stepLog[b][3]

C3_Witness ==
    /\ lastCall.op = "update"
    /\ \E a \in DOMAIN stepLog : stepLog[a][1] = 1
    /\ Len(batch_indices) >= 2

\* C4: load_model and load on a path that does not exist return without error
\* and leave the model state as it was.
C4_MissingCheckpointIsNoOp ==
    (lastCall.op \in {"load", "load_model"} /\ files[lastCall.path] = NoFile) =>
        /\ lastCall.outcome = "ok"
        /\ ModelState = lastCall.before

\* C5: save to a path, the parent directory being made when absent, then load
\* of that path, completes without error and leaves the loaded parameters
\* equal to the saved ones.
C5_SaveThenLoadRoundTrip ==
    /\ lastCall.op \in {"save", "save_model"} =>
          /\ lastCall.outcome = "ok"
          /\ Parent(lastCall.path) \in dirs
          /\ files[lastCall.path] = params
    /\ (lastCall.op \in {"load", "load_model"} /\ files[lastCall.path] # NoFile) =>
          /\ lastCall.outcome = "ok"
          /\ params = files[lastCall.path]

\* C6: validation returns the scalar loss and leaves the model state as it
\* was.  Stated for the calls whose forward has returned.
C6_ValidationReturnsLoss ==
    (lastCall.op = "validation" /\ pc = "idle" /\ lastReturn.fn = "forward") =>
        /\ lastCall.outcome = "ok"
        /\ ModelState = lastCall.before

\* C7: update runs exactly E*K single steps, one after another in epoch order
\* and batch order, never stops early, and returns the mean of the K batch
\* losses of the last epoch.
C7_EpochLoopRunsAllSteps ==
    LET K == Len(batch_indices) IN
    (lastCall.op = "update" /\ lastCall.outcome \in {"running", "ok"}) =>
        /\ K >= 1
        /\ \A n \in DOMAIN stepLog :
              /\ stepLog[n][1] = (n - 1) \div K
              /\ stepLog[n][2] = (n - 1) % K
        /\ Len(stepLog) <= epochs * K
        /\ optSteps - lastCall.before.optSteps = Len(stepLog)
        /\ lastCall.outcome = "running" => ENABLED UpdateProgress
        /\ lastCall.outcome = "ok" =>
              /\ Len(stepLog) = epochs * K
              /\ epochLosses[1] = K
              /\ RatEq(lastCall.rv, <<epochLosses[2], K>>)

C7_Witness ==
    /\ lastCall.op = "update"
    /\ lastCall.outcome = "ok"
    /\ epochs = 2
    /\ Len(batch_indices) = 2
    /\ Len(stepLog) = 4
    /\ epochLosses[2] = 1

IsDistribution(v) ==
    /\ \A c \in Classes : v[c][1] >= 0 /\ v[c][2] > 0
    /\ \A c, d \in Classes : v[c][2] = v[d][2]
    /\ SumSeq([k \in 1..Cardinality(Classes) |-> v[k - 1][1]]) = v[0][2]

\* C8: forward returns, per document, the projected vector of the last time
\* step only: normalized to a distribution when the model is not in training
\* mode, the raw scores when it is.
C8_ForwardLastStepByMode ==
    pc = "fwd_ret" =>
        LET rows == stack[Len(stack)].args[2].rows IN
        /\ DOMAIN fwdOut = DOMAIN rows
        /\ \A k \in DOMAIN rows :
              LET doc == Doc(rows[k])
                  last == Linear(params, Hidden(params, doc, Len(doc)))
              IN  /\ training => fwdOut[k] = last
                  /\ ~training => /\ fwdOut[k] = Softmax(last)
                                  /\ IsDistribution(fwdOut[k])

C8_Witness ==
    /\ pc = "fwd_ret"
    /\ ~training
    /\ lastCall.op = "forward"
    /\ fwdOut[1] # Linear(params, Hidden(params, Doc(NumDocs), 2))
    /\ Linear(params, Hidden(params, Doc(NumDocs), 1))
          # Linear(params, Hidden(params, Doc(NumDocs), 2))

FrameArguments(frame) == frame.orig \cup FrameObjects(frame)

\* C9 as stated: no object is an argument of two adapted calls in progress.
C9_NoSharedArgument ==
    \A a, b \in DOMAIN stack :
        a < b => FrameArguments(stack[a]) \cap FrameArguments(stack[b]) = {}

\* C9 as amended: adapted calls are nested, never interleaved: at most the
\* adapted forward inside the adapted update; no tensor is an argument of two
\* adapted calls in progress, and the model is the one object that is.
C9_OnlyModelShared ==
    /\ Len(stack) <= 2
    /\ Len(stack) = 2 => stack[1].fn = "update" /\ stack[2].fn = "forward"
    /\ \A a, b \in DOMAIN stack :
          a < b => FrameArguments(stack[a]) \cap FrameArguments(stack[b]) = {Module}

C9_Witness ==
    /\ Len(stack) = 2
    /\ pc = "fwd_ret"
    /\ iteration = 1

\* C10: on a machine with or without an accelerator and whatever device was
\* given at construction, forward runs with the input, the parameters and the
\* zero hidden state on one device and no call ends in a device error.
C10_ForwardOnOneDevice ==
    /\ lastCall.outcome \notin {"cuda_error", "device_error"}
    /\ pc = "fwd" =>
          ForwardDevicesAgree(stack[Len(stack)].args[2], modelLoc, device)

====
